---- MODULE Spec2Model ----
(***************************************************************************)
(* Model of "ML DL training/3D_training_extraction.py": the batch script   *)
(* that cuts 3D image / label volumes into 2D training slices along the    *)
(* three axes, keeps the slices with enough labels, writes each kept       *)
(* slice as an image file and a mask file, and recounts the masks on disk. *)
(*                                                                         *)
(* File names are sequences of tokens (the stem's tokens, "_XY_", "Z",     *)
(* the digits of the index, "_cp_masks", ".tif"): "x in name" and the      *)
(* glob patterns are matched token by token.  Arrays are records of a      *)
(* shape and the nested rows of values; Python's 0-based index k is        *)
(* position k + 1 of a row.                                                *)
(***************************************************************************)
EXTENDS Integers, Sequences, FiniteSets, TLC

VARIABLES
    train_dir,        \* listing of the input directory: sequence of [name, content]
    output_dir,       \* the output directory: function from file name to content
    min_masks,        \* the configured threshold of this run
    image_files,      \* the discovered image files (entries of train_dir)
    total_saved,
    fi,               \* position of the "for img_file in image_files" loop (1-based)
    img, masks,       \* the arrays loaded for the current file
    nz, ny, nx,
    saved_this_file,
    xy_saved, xz_saved, yz_saved,
    axis,             \* which of the three slice loops is running
    i,                \* its loop variable (z, y or x)
    pc,               \* position of the script
    xy_count, xz_count, yz_count, total,
    run,              \* which invocation of the script this is
    sums,             \* history: per-axis sums of xy_saved, xz_saved, yz_saved of this run
    written,          \* history: the mask files this run wrote completely
    prev              \* history: what the previous invocation left behind

vars == <<train_dir, output_dir, min_masks, image_files, total_saved, fi, img, masks,
          nz, ny, nx, saved_this_file, xy_saved, xz_saved, yz_saved, axis, i, pc,
          xy_count, xz_count, yz_count, total, run, sums, written, prev>>

-----------------------------------------------------------------------------
(* Bounds of the model *)

MaxFiles == 2         \* image files in a batch directory
MaxMinMasks == 2      \* thresholds 1..MaxMinMasks
MaxLabel == 2         \* small label values 0..MaxLabel
MaxRuns == 2          \* invocations of the script over the same directories

\* np.uint16 holds values modulo 2^16
UInt16Range == 65536

-----------------------------------------------------------------------------
(* Arrays *)

NoArray == [shape |-> <<>>, data |-> <<>>]

\* a[k, :, :]
TakeZ(a, k) == [shape |-> <<a.shape[2], a.shape[3]>>, data |-> a.data[k + 1]]

\* a[:, k, :]
TakeY(a, k) ==
    [shape |-> <<a.shape[1], a.shape[3]>>,
     data |-> [z \in 1..a.shape[1] |-> a.data[z][k + 1]]]

\* a[:, :, k]
TakeX(a, k) ==
    [shape |-> <<a.shape[1], a.shape[2]>>,
     data |-> [z \in 1..a.shape[1] |-> [y \in 1..a.shape[2] |-> a.data[z][y][k + 1]]]]

\* a[..., 0] of a 4-axis array
DropLast(a) ==
    [shape |-> <<a.shape[1], a.shape[2], a.shape[3]>>,
     data |-> [z \in 1..a.shape[1] |-> [y \in 1..a.shape[2] |->
                 [x \in 1..a.shape[3] |-> a.data[z][y][x][1]]]]]

\* np.unique(a) of a 2-axis array: the set of its values
unique(a) == {a.data[r][c] : r \in 1..a.shape[1], c \in 1..a.shape[2]}

\* a wrong cast: values beyond 16 bits are clipped to 65535 instead of wrapping
astype_clipped(a) ==
    [shape |-> a.shape,
     data |-> [r \in 1..a.shape[1] |-> [c \in 1..a.shape[2] |->
                 IF a.data[r][c] >= UInt16Range THEN UInt16Range - 1 ELSE a.data[r][c]]]]

\* a.astype(np.uint16) of a 2-axis integer array: every value wraps modulo 2^16
astype_uint16(a) ==
    [shape |-> a.shape,
     data |-> [r \in 1..a.shape[1] |-> [c \in 1..a.shape[2] |-> a.data[r][c] % UInt16Range]]]

-----------------------------------------------------------------------------
(* File names *)

Digits == <<"0", "1", "2", "3", "4", "5", "6", "7", "8", "9">>

RECURSIVE DigitsOf(_)
DigitsOf(n) == IF n < 10 THEN <<Digits[n + 1]>>
               ELSE DigitsOf(n \div 10) \o <<Digits[(n % 10) + 1]>>

\* f"{n:03d}": the decimal digits, zero-padded to at least three
Pad3(n) ==
    LET d == DigitsOf(n)
    IN  IF Len(d) >= 3 THEN d ELSE [k \in 1..(3 - Len(d)) |-> "0"] \o d

Contains(name, token) == \E k \in 1..Len(name) : name[k] = token

\* Path.stem: the name without its last suffix
stem(name) == SubSeq(name, 1, Len(name) - 1)

AxisTag(ax) == CASE ax = "XY" -> "_XY_" [] ax = "XZ" -> "_XZ_" [] ax = "YZ" -> "_YZ_"
AxisLetter(ax) == CASE ax = "XY" -> "Z" [] ax = "XZ" -> "Y" [] ax = "YZ" -> "X"

\* a wrong name: the image slice goes to the mask's file name
img_out_name_masks(st, ax, k) ==
    st \o <<AxisTag(ax), AxisLetter(ax)>> \o Pad3(k) \o <<"_cp_masks", ".tif">>

\* f"{img_file.stem}_XY_Z{z:03d}.tif" and its XZ / YZ counterparts
img_out_name(st, ax, k) == st \o <<AxisTag(ax), AxisLetter(ax)>> \o Pad3(k) \o <<".tif">>

\* f"{img_file.stem}_XY_Z{z:03d}_cp_masks.tif" and its XZ / YZ counterparts
mask_out_name(st, ax, k) ==
    st \o <<AxisTag(ax), AxisLetter(ax)>> \o Pad3(k) \o <<"_cp_masks", ".tif">>

\* img_file.with_name(img_file.stem + "_seg.npy")
seg_file(name) == stem(name) \o <<"_seg", ".npy">>

\* name matches "*<tag>*_cp_masks.tif"
MatchesMaskGlob(name, tag) ==
    /\ Len(name) >= 3
    /\ name[Len(name)] = ".tif"
    /\ name[Len(name) - 1] = "_cp_masks"
    /\ \E k \in 1..(Len(name) - 2) : name[k] = tag

\* len(list(output_dir.glob("*<tag>*_cp_masks.tif")))
GlobCount(dir, tag) == Cardinality({n \in DOMAIN dir : MatchesMaskGlob(n, tag)})

\* the filter of the image_files list comprehension
IsImageFile(name) ==
    /\ name[Len(name)] = ".tif"
    /\ ~Contains(name, "_cp_masks")
    /\ ~Contains(name, "_flows")
    /\ ~Contains(name, "_seg")

-----------------------------------------------------------------------------
(* Inputs: the directories the script is run on *)

\* an image volume whose intensity tells the voxel: its row-major position
Ramp3(s) ==
    [shape |-> s,
     data |-> [z \in 1..s[1] |-> [y \in 1..s[2] |-> [x \in 1..s[3] |->
                 ((z - 1) * s[2] + (y - 1)) * s[3] + (x - 1)]]]]

\* the same intensities with a trailing channel axis of size c
Ramp4(s, c) ==
    [shape |-> s \o <<c>>,
     data |-> [z \in 1..s[1] |-> [y \in 1..s[2] |-> [x \in 1..s[3] |-> [d \in 1..c |->
                 (((z - 1) * s[2] + (y - 1)) * s[3] + (x - 1)) * c + (d - 1)]]]]]

\* label values: small ones, and two that do not fit 16 bits
Labels == (0..MaxLabel) \cup {UInt16Range, UInt16Range + 1}

RichShape == <<2, 1, 2>>
BatchShape == <<2, 2, 1>>

\* every label volume of RichShape
RichVolumes ==
    {[shape |-> RichShape, data |-> d] :
        d \in [1..RichShape[1] -> [1..RichShape[2] -> [1..RichShape[3] -> Labels]]]}

\* a label volume of shape s given voxel by voxel (0-based indices)
Volume(s, label(_, _, _)) ==
    [shape |-> s,
     data |-> [z \in 1..s[1] |-> [y \in 1..s[2] |-> [x \in 1..s[3] |->
                 label(z - 1, y - 1, x - 1)]]]]

\* two labels side by side in plane z=0 (no background there), nothing in z=1
VolTwo == Volume(BatchShape, LAMBDA z, y, x : IF z = 0 THEN y + 1 ELSE 0)

\* a single labelled voxel
VolOne == Volume(BatchShape, LAMBDA z, y, x : IF <<z, y, x>> = <<1, 0, 0>> THEN 1 ELSE 0)

\* the files of one image: companion in {"ok", "noseg", "nokey"}; trailing = 0 for a
\* 3-axis image, else the size of its 4th axis
FileOf(st, companion, trailing, vol) ==
    <<[name |-> st \o <<".tif">>,
       content |-> IF trailing = 0 THEN Ramp3(vol.shape) ELSE Ramp4(vol.shape, trailing)]>>
    \o (IF companion = "ok"
          THEN <<[name |-> st \o <<"_seg", ".npy">>,
                  content |-> [filename |-> st, masks |-> vol]]>>
        ELSE IF companion = "nokey"
          THEN <<[name |-> st \o <<"_seg", ".npy">>, content |-> [filename |-> st]]>>
        ELSE <<>>)

\* the same with the files Cellpose derives from an image, which are no inputs
WithDerived(st, companion, trailing, vol) ==
    <<[name |-> st \o <<"_cp_masks", ".tif">>, content |-> vol],
      [name |-> st \o <<"_flows", ".tif">>, content |-> Ramp3(vol.shape)]>>
    \o FileOf(st, companion, trailing, vol)

BatchVariants ==
    { [companion |-> "ok", trailing |-> 0, vol |-> VolTwo],
      [companion |-> "ok", trailing |-> 1, vol |-> VolTwo],
      [companion |-> "ok", trailing |-> 2, vol |-> VolTwo],
      [companion |-> "ok", trailing |-> 0, vol |-> VolOne],
      [companion |-> "noseg", trailing |-> 0, vol |-> VolOne],
      [companion |-> "nokey", trailing |-> 0, vol |-> VolOne] }

\* stems in listing order; the second contains an axis tag
Stems == << <<"a">>, <<"a", "_XY_", "b">>, <<"c">> >>

\* strictly increasing choices of n stems
StemChoices(n) == {c \in [1..n -> 1..Len(Stems)] : \A k \in 1..(n - 1) : c[k] < c[k + 1]}

RECURSIVE Listing(_, _, _)
Listing(c, v, n) ==
    IF n = 0 THEN <<>>
    ELSE Listing(c, v, n - 1)
         \o WithDerived(Stems[c[n]], v[n].companion, v[n].trailing, v[n].vol)

BatchDirs == UNION { {Listing(c, v, n) : c \in StemChoices(n), v \in [1..n -> BatchVariants]}
                     : n \in 1..MaxFiles }

RichDirs == {FileOf(<<"a">>, "ok", 0, vol) : vol \in RichVolumes}

\* the 10 x 20 x 20 scenario: label 5 on the whole plane z=3, label 7 at voxel [3,10,10]
ScenarioShape == <<10, 20, 20>>
ScenarioVolume ==
    Volume(ScenarioShape,
           LAMBDA z, y, x : IF <<z, y, x>> = <<3, 10, 10>> THEN 7 ELSE IF z = 3 THEN 5 ELSE 0)
ScenarioDir == FileOf(<<"vol">>, "ok", 0, ScenarioVolume)

\* the scenario is run at min_masks = 1; the other directories at every threshold
Inputs == ((RichDirs \cup BatchDirs) \X (1..MaxMinMasks)) \cup {<<ScenarioDir, 1>>}

NoRun == [output_dir |-> <<>>, xy_count |-> 0, xz_count |-> 0, yz_count |-> 0,
          written |-> {}, sums |-> [xy |-> 0, xz |-> 0, yz |-> 0], min_masks |-> 0]

\* a fresh process: nothing discovered, loaded or counted yet
Fresh ==
    /\ image_files = <<>>
    /\ total_saved = 0
    /\ fi = 0
    /\ img = NoArray
    /\ masks = NoArray
    /\ nz = 0 /\ ny = 0 /\ nx = 0
    /\ saved_this_file = 0
    /\ xy_saved = 0 /\ xz_saved = 0 /\ yz_saved = 0
    /\ axis = "XY"
    /\ i = 0
    /\ pc = "start"
    /\ xy_count = 0 /\ xz_count = 0 /\ yz_count = 0 /\ total = 0
    /\ sums = [xy |-> 0, xz |-> 0, yz |-> 0]
    /\ written = {}

Init ==
    /\ \E input \in Inputs : train_dir = input[1] /\ min_masks = input[2]
    /\ output_dir = <<>>
    /\ run = 1
    /\ prev = NoRun
    /\ Fresh

-----------------------------------------------------------------------------
(* The script *)

Exists(name) == \E k \in 1..Len(train_dir) : train_dir[k].name = name

\* imread(path), np.load(path, allow_pickle=True).item()
Load(name) == train_dir[CHOOSE k \in 1..Len(train_dir) : train_dir[k].name = name].content

\* a wrong write: an existing file is appended to (a second page) instead of replaced
imwrite_append(dir, name, array) ==
    [n \in (DOMAIN dir) \cup {name} |->
        IF n # name THEN dir[n]
        ELSE IF name \in DOMAIN dir
          THEN [complete |-> TRUE, array |-> [shape |-> <<2>> \o array.shape,
                                               data |-> <<dir[n].array.data, array.data>>]]
        ELSE [complete |-> TRUE, array |-> array]]

\* imwrite(output_dir / name, array): creates or overwrites the file
imwrite(dir, name, array) ==
    [n \in (DOMAIN dir) \cup {name} |->
        IF n = name THEN [complete |-> TRUE, array |-> array] ELSE dir[n]]

\* an imwrite that raises may leave a truncated file behind
imwrite_truncated(dir, name) ==
    [n \in (DOMAIN dir) \cup {name} |->
        IF n = name THEN [complete |-> FALSE, array |-> NoArray] ELSE dir[n]]

\* train_dir.glob("*.tif") filtered by the three markers, in listing order
Discovered(dir) == LET Test(e) == IsImageFile(e.name) IN SelectSeq(dir, Test)

\* a wrong normalisation: the trailing axis is never dropped
Normalized_never(a) == a

\* a wrong normalisation: channel 0 of any 4-axis image is taken, whatever its size
Normalized_truncating(a) == IF Len(a.shape) = 4 THEN DropLast(a) ELSE a

\* "if len(img.shape) == 4: if img.shape[-1] == 1: img = img[..., 0]"
Normalized(a) == IF Len(a.shape) = 4 /\ a.shape[4] = 1 THEN DropLast(a) ELSE a

\* masks[z, :, :], masks[:, y, :], masks[:, :, x]
mask_slice(vol, ax, k) ==
    CASE ax = "XY" -> TakeZ(vol, k) [] ax = "XZ" -> TakeY(vol, k) [] ax = "YZ" -> TakeX(vol, k)

\* img[z, :, :], img[:, y, :], img[:, :, x]
img_slice(vol, ax, k) ==
    CASE ax = "XY" -> TakeZ(vol, k) [] ax = "XZ" -> TakeY(vol, k) [] ax = "YZ" -> TakeX(vol, k)

\* len(np.unique(mask_slice)) - 1
num_masks(slice) == Cardinality(unique(slice)) - 1

\* wrong comparisons: strictly more masks than the threshold; exactly as many
passes_strict(n, m) == n > m
passes_exact(n, m) == n = m

\* "if num_masks >= min_masks"
passes(n, m) == n >= m

\* range(nz), range(ny), range(nx)
AxisLen(ax) == CASE ax = "XY" -> nz [] ax = "XZ" -> ny [] ax = "YZ" -> nx

img_file == image_files[fi]

InFileLoop == pc = "files" /\ fi <= Len(image_files)

AtSlice == pc = "slices" /\ i < AxisLen(axis)

-----------------------------------------------------------------------------
(* Steps of the script *)

loop_vars == <<img, masks, nz, ny, nx, saved_this_file, xy_saved, xz_saved, yz_saved, axis, i>>
count_vars == <<xy_count, xz_count, yz_count, total>>
env_vars == <<train_dir, min_masks, run, prev>>

\* image_files = [...]; total_saved = 0
Discover ==
    /\ pc = "start"
    /\ image_files' = Discovered(train_dir)
    /\ total_saved' = 0
    /\ fi' = 1
    /\ pc' = "files"
    /\ UNCHANGED <<output_dir, loop_vars, count_vars, env_vars, sums, written>>

\* a wrong skip: "break" instead of "continue" leaves the file loop
SkipNoSeg_break ==
    /\ InFileLoop
    /\ ~Exists(seg_file(img_file.name))
    /\ fi' = Len(image_files) + 1
    /\ UNCHANGED <<output_dir, image_files, total_saved, pc, loop_vars, count_vars,
                   env_vars, sums, written>>

\* "if not seg_file.exists(): ... continue"
SkipNoSeg ==
    /\ InFileLoop
    /\ ~Exists(seg_file(img_file.name))
    /\ fi' = fi + 1
    /\ UNCHANGED <<output_dir, image_files, total_saved, pc, loop_vars, count_vars,
                   env_vars, sums, written>>

\* img and dat are loaded; "if 'masks' not in dat: ... continue"
SkipNoMasks ==
    /\ InFileLoop
    /\ Exists(seg_file(img_file.name))
    /\ "masks" \notin DOMAIN Load(seg_file(img_file.name))
    /\ img' = Load(img_file.name)
    /\ fi' = fi + 1
    /\ UNCHANGED <<output_dir, image_files, total_saved, pc, masks, nz, ny, nx,
                   saved_this_file, xy_saved, xz_saved, yz_saved, axis, i, count_vars,
                   env_vars, sums, written>>

HasMasks ==
    /\ InFileLoop
    /\ Exists(seg_file(img_file.name))
    /\ "masks" \in DOMAIN Load(seg_file(img_file.name))

\* "nz, ny, nx = img.shape" raises ValueError unless the shape has three entries
RejectShape ==
    /\ HasMasks
    /\ Len(Normalized(Load(img_file.name)).shape) # 3
    /\ img' = Normalized(Load(img_file.name))
    /\ masks' = Load(seg_file(img_file.name)).masks
    /\ pc' = "ValueError"
    /\ UNCHANGED <<output_dir, image_files, total_saved, fi, nz, ny, nx, saved_this_file,
                   xy_saved, xz_saved, yz_saved, axis, i, count_vars, env_vars, sums,
                   written>>

\* the file is loaded and normalised; saved_this_file = 0; xy_saved = 0; the Z loop starts
BeginFile ==
    /\ HasMasks
    /\ LET a == Normalized(Load(img_file.name))
       IN  /\ Len(a.shape) = 3
           /\ img' = a
           /\ nz' = a.shape[1] /\ ny' = a.shape[2] /\ nx' = a.shape[3]
    /\ masks' = Load(seg_file(img_file.name)).masks
    /\ saved_this_file' = 0
    /\ xy_saved' = 0
    /\ axis' = "XY"
    /\ i' = 0
    /\ pc' = "slices"
    /\ UNCHANGED <<output_dir, image_files, total_saved, fi, xz_saved, yz_saved,
                   count_vars, env_vars, sums, written>>

\* the slice has too few labels: nothing is written
SkipSlice ==
    /\ AtSlice
    /\ ~passes(num_masks(mask_slice(masks, axis, i)), min_masks)
    /\ i' = i + 1
    /\ UNCHANGED <<output_dir, image_files, total_saved, fi, pc, img, masks, nz, ny, nx,
                   saved_this_file, xy_saved, xz_saved, yz_saved, axis, count_vars,
                   env_vars, sums, written>>

\* imwrite(output_dir / img_out_name, img_slice)
WriteImage ==
    /\ AtSlice
    /\ passes(num_masks(mask_slice(masks, axis, i)), min_masks)
    /\ output_dir' = imwrite(output_dir, img_out_name(stem(img_file.name), axis, i),
                             img_slice(img, axis, i))
    /\ pc' = "mask"
    /\ UNCHANGED <<image_files, total_saved, fi, loop_vars, count_vars, env_vars, sums,
                   written>>

\* imwrite(output_dir / mask_out_name, mask_slice.astype(np.uint16)); the counters
WriteMask ==
    /\ pc = "mask"
    /\ output_dir' = imwrite(output_dir, mask_out_name(stem(img_file.name), axis, i),
                             astype_uint16(mask_slice(masks, axis, i)))
    /\ xy_saved' = IF axis = "XY" THEN xy_saved + 1 ELSE xy_saved
    /\ xz_saved' = IF axis = "XZ" THEN xz_saved + 1 ELSE xz_saved
    /\ yz_saved' = IF axis = "YZ" THEN yz_saved + 1 ELSE yz_saved
    /\ saved_this_file' = saved_this_file + 1
    /\ i' = i + 1
    /\ pc' = "slices"
    /\ written' = written \cup {mask_out_name(stem(img_file.name), axis, i)}
    /\ UNCHANGED <<image_files, total_saved, fi, img, masks, nz, ny, nx, axis,
                   count_vars, env_vars, sums>>

\* an imwrite raises (disk full, permissions): nothing catches it
WriteFails ==
    /\ \/ /\ AtSlice
          /\ passes(num_masks(mask_slice(masks, axis, i)), min_masks)
          /\ \/ UNCHANGED output_dir
             \/ output_dir' = imwrite_truncated(output_dir,
                                  img_out_name(stem(img_file.name), axis, i))
       \/ /\ pc = "mask"
          /\ \/ UNCHANGED output_dir
             \/ output_dir' = imwrite_truncated(output_dir,
                                  mask_out_name(stem(img_file.name), axis, i))
    /\ pc' = "OSError"
    /\ UNCHANGED <<image_files, total_saved, fi, loop_vars, count_vars, env_vars, sums,
                   written>>

\* the Z loop is over: xz_saved = 0 and the Y loop; then yz_saved = 0 and the X loop
NextAxis ==
    /\ pc = "slices"
    /\ i = AxisLen(axis)
    /\ axis # "YZ"
    /\ axis' = IF axis = "XY" THEN "XZ" ELSE "YZ"
    /\ xz_saved' = IF axis = "XY" THEN 0 ELSE xz_saved
    /\ yz_saved' = IF axis = "XZ" THEN 0 ELSE yz_saved
    /\ i' = 0
    /\ UNCHANGED <<output_dir, image_files, total_saved, fi, pc, img, masks, nz, ny, nx,
                   saved_this_file, xy_saved, count_vars, env_vars, sums, written>>

\* the X loop is over: total_saved += saved_this_file, and the next file
EndFile ==
    /\ pc = "slices"
    /\ i = AxisLen(axis)
    /\ axis = "YZ"
    /\ total_saved' = total_saved + saved_this_file
    /\ sums' = [xy |-> sums.xy + xy_saved, xz |-> sums.xz + xz_saved,
                yz |-> sums.yz + yz_saved]
    /\ fi' = fi + 1
    /\ pc' = "files"
    /\ UNCHANGED <<output_dir, image_files, loop_vars, count_vars, env_vars, written>>

\* all files done: the masks on disk are counted per axis
Recount ==
    /\ pc = "files"
    /\ fi > Len(image_files)
    /\ xy_count' = GlobCount(output_dir, "_XY_")
    /\ xz_count' = GlobCount(output_dir, "_XZ_")
    /\ yz_count' = GlobCount(output_dir, "_YZ_")
    /\ total' = GlobCount(output_dir, "_XY_") + GlobCount(output_dir, "_XZ_")
                + GlobCount(output_dir, "_YZ_")
    /\ pc' = "done"
    /\ UNCHANGED <<output_dir, image_files, total_saved, fi, loop_vars, env_vars, sums,
                   written>>

\* the script is run again on the same directories, with any threshold
Rerun ==
    /\ pc = "done"
    /\ run < MaxRuns
    /\ run' = run + 1
    /\ prev' = [output_dir |-> output_dir, xy_count |-> xy_count, xz_count |-> xz_count,
                yz_count |-> yz_count, written |-> written, sums |-> sums,
                min_masks |-> min_masks]
    /\ min_masks' \in 1..MaxMinMasks
    /\ image_files' = <<>>
    /\ total_saved' = 0
    /\ fi' = 0
    /\ img' = NoArray
    /\ masks' = NoArray
    /\ nz' = 0 /\ ny' = 0 /\ nx' = 0
    /\ saved_this_file' = 0
    /\ xy_saved' = 0 /\ xz_saved' = 0 /\ yz_saved' = 0
    /\ axis' = "XY"
    /\ i' = 0
    /\ pc' = "start"
    /\ xy_count' = 0 /\ xz_count' = 0 /\ yz_count' = 0 /\ total' = 0
    /\ sums' = [xy |-> 0, xz |-> 0, yz |-> 0]
    /\ written' = {}
    /\ UNCHANGED <<train_dir, output_dir>>

Next ==
    \/ Discover
    \/ SkipNoSeg
    \/ SkipNoMasks
    \/ RejectShape
    \/ BeginFile
    \/ SkipSlice
    \/ WriteImage
    \/ WriteMask
    \/ WriteFails
    \/ NextAxis
    \/ EndFile
    \/ Recount
    \/ Rerun

Spec == Init /\ [][Next]_vars

-----------------------------------------------------------------------------
(* Vocabulary of the properties *)

Axes == {"XY", "XZ", "YZ"}

AxisOrder(ax) == CASE ax = "XY" -> 1 [] ax = "XZ" -> 2 [] ax = "YZ" -> 3

\* the extent of a 3-axis (or longer) shape along the axis a slice loop walks
DimOf(shape, ax) == shape[AxisOrder(ax)]

\* the slice loops of the current file are past slice k of axis ax
Processed(ax, k) ==
    \/ AxisOrder(ax) < AxisOrder(axis)
    \/ ax = axis /\ k < i

\* the number of distinct non-zero label values of a slice
NonZeroLabels(slice) == Cardinality(unique(slice) \ {0})

OnDisk(name) == name \in DOMAIN output_dir

PairOnDisk(st, ax, k) == OnDisk(img_out_name(st, ax, k)) /\ OnDisk(mask_out_name(st, ax, k))

CurrentStem == stem(img_file.name)

Slicing == pc \in {"slices", "mask"}

\* a discovered image the script skips with a warning
Skippable(e) ==
    \/ ~Exists(seg_file(e.name))
    \/ "masks" \notin DOMAIN Load(seg_file(e.name))

Unit4D(a) == Len(a.shape) = 4 /\ a.shape[4] = 1
Bad4D(a) == Len(a.shape) = 4 /\ a.shape[4] > 1

IsMaskName(n) == Len(n) >= 2 /\ n[Len(n) - 1] = "_cp_masks"
ImageOfMask(n) == SubSeq(n, 1, Len(n) - 2) \o <<".tif">>
MaskOfImage(n) == SubSeq(n, 1, Len(n) - 1) \o <<"_cp_masks", ".tif">>
OrphanImages == {n \in DOMAIN output_dir : ~IsMaskName(n) /\ ~OnDisk(MaskOfImage(n))}

-----------------------------------------------------------------------------
(* C1 *)

\* C1: in a run that starts from an empty output directory, for every slice the loops
\* of the current file are past, on every axis, the slice pair is on disk if and only
\* if the slice has at least min_masks distinct non-zero labels.
C1_SavedIffEnoughLabels ==
    (run = 1 /\ Slicing) =>
        \A ax \in Axes : \A k \in 0..(DimOf(masks.shape, ax) - 1) :
            Processed(ax, k) =>
                (PairOnDisk(CurrentStem, ax, k)
                    <=> NonZeroLabels(mask_slice(masks, ax, k)) >= min_masks)

-----------------------------------------------------------------------------
(* C2 *)

ScenarioRunDone == pc = "done" /\ run = 1 /\ min_masks = 1 /\ train_dir = ScenarioDir

ScenarioPair(ax, k) == {img_out_name(<<"vol">>, ax, k), mask_out_name(<<"vol">>, ax, k)}

ScenarioLabels(ax, k) == unique(output_dir[mask_out_name(<<"vol">>, ax, k)].array)

\* C2 as stated: in the 10x20x20 scenario at min_masks = 1 the run saves exactly the XY
\* slice z=3 (labels {5,7}), the XZ slice y=10 and the YZ slice x=10, and skips every
\* other Y and X index.
C2_ScenarioAsStated ==
    ScenarioRunDone =>
        /\ DOMAIN output_dir = ScenarioPair("XY", 3) \cup ScenarioPair("XZ", 10)
                                 \cup ScenarioPair("YZ", 10)
        /\ ScenarioLabels("XY", 3) = {5, 7}

\* C2 amended: in the scenario at min_masks = 1 the run saves exactly one XY slice, z=3,
\* holding labels {5,7}, and saves every one of the 20 XZ slices and of the 20 YZ
\* slices: each crosses the plane z=3 and holds label 5, those at y=10 and x=10 hold
\* label 7 too; no Y or X index is skipped.
C2_ScenarioAmended ==
    ScenarioRunDone =>
        /\ DOMAIN output_dir = ScenarioPair("XY", 3)
                                 \cup UNION {ScenarioPair("XZ", k) : k \in 0..19}
                                 \cup UNION {ScenarioPair("YZ", k) : k \in 0..19}
        /\ ScenarioLabels("XY", 3) = {5, 7}
        /\ \A ax \in {"XZ", "YZ"} : \A k \in 0..19 :
              ScenarioLabels(ax, k) = IF k = 10 THEN {0, 5, 7} ELSE {0, 5}
        /\ xy_saved = 1 /\ xz_saved = 20 /\ yz_saved = 20

C2_Witness == ScenarioRunDone /\ OnDisk(mask_out_name(<<"vol">>, "YZ", 19))

-----------------------------------------------------------------------------
(* C3 *)

\* C3: when a run that started from an empty output directory completes, the recount
\* from disk equals what the run wrote, per axis and in total.
C3_RecountEqualsWritten ==
    (run = 1 /\ pc = "done") =>
        /\ xy_count = sums.xy
        /\ xz_count = sums.xz
        /\ yz_count = sums.yz
        /\ total = total_saved

-----------------------------------------------------------------------------
(* C4 *)

\* C4: when the script has run again over the same inputs with the same min_masks into
\* the same output directory, the output files (names and contents) and the per-axis
\* recounts are those the previous run left.
C4_RerunIdempotent ==
    (pc = "done" /\ run > 1 /\ min_masks = prev.min_masks) =>
        /\ output_dir = prev.output_dir
        /\ xy_count = prev.xy_count
        /\ xz_count = prev.xz_count
        /\ yz_count = prev.yz_count

C4_Witness ==
    /\ pc = "done" /\ run > 1 /\ min_masks = prev.min_masks
    /\ written # {}
    /\ xy_count > 0 /\ xz_count > 0 /\ yz_count > 0

-----------------------------------------------------------------------------
(* C5 *)

\* the label volume that goes with a discovered image
LabelsOf(e) == Load(seg_file(e.name)).masks

\* the files a run from an empty directory writes for one image it does not skip
KeptIndices(vol, ax, m) ==
    {k \in 0..(DimOf(vol.shape, ax) - 1) : passes(num_masks(mask_slice(vol, ax, k)), m)}

ExpectedOf(e) ==
    UNION { UNION { { img_out_name(stem(e.name), ax, k), mask_out_name(stem(e.name), ax, k) }
                    : k \in KeptIndices(LabelsOf(e), ax, min_masks) }
            : ax \in Axes }

ExpectedNames ==
    UNION { ExpectedOf(image_files[f])
            : f \in {g \in 1..Len(image_files) : ~Skippable(image_files[g])} }

\* C5: an image without its _seg.npy file, or whose label data lacks 'masks', gets no
\* output file, no exception is raised at it, and a run that completes leaves exactly
\* the outputs of the remaining images.
C5_SkipOnlyThatFile ==
    /\ \A f \in 1..Len(image_files) :
          Skippable(image_files[f]) =>
              /\ \A ax \in Axes : \A k \in 0..(DimOf(image_files[f].content.shape, ax) - 1) :
                    /\ ~OnDisk(img_out_name(stem(image_files[f].name), ax, k))
                    /\ ~OnDisk(mask_out_name(stem(image_files[f].name), ax, k))
              /\ (pc \in {"ValueError", "OSError"} => fi # f)
    /\ (run = 1 /\ pc = "done") =>
          DOMAIN output_dir = ExpectedNames

C5_Witness ==
    /\ run = 1 /\ pc = "done"
    /\ Len(image_files) >= 2
    /\ Skippable(image_files[1])
    /\ ~Skippable(image_files[2])
    /\ written # {}

-----------------------------------------------------------------------------
(* C6 *)

\* C6: when a completed run is followed by a run over the same inputs with a threshold
\* at least as high, the second run saves a subset of the slices the first saved, so
\* no per-axis count and no total grows.
C6_ThresholdMonotone ==
    (pc = "done" /\ run > 1 /\ prev.min_masks <= min_masks) =>
        /\ written \subseteq prev.written
        /\ sums.xy <= prev.sums.xy
        /\ sums.xz <= prev.sums.xz
        /\ sums.yz <= prev.sums.yz
        /\ total_saved <= prev.sums.xy + prev.sums.xz + prev.sums.yz

C6_Witness ==
    /\ pc = "done" /\ run > 1 /\ prev.min_masks < min_masks
    /\ written # {}
    /\ written # prev.written

-----------------------------------------------------------------------------
(* C7 *)

\* g is f with a trailing axis of size 1: same intensities, same labels
SameButTrailingAxis(f, g) ==
    /\ Len(f.content.shape) = 3
    /\ g.content.shape = f.content.shape \o <<1>>
    /\ \A z \in 1..f.content.shape[1] : \A y \in 1..f.content.shape[2] :
          \A x \in 1..f.content.shape[3] :
              g.content.data[z][y][x][1] = f.content.data[z][y][x]
    /\ ~Skippable(f) /\ ~Skippable(g)
    /\ LabelsOf(f) = LabelsOf(g)

\* the outputs of f and of g agree at slice k of axis ax: both absent, or both present
\* with the same contents
SameOutput(f, g, ax, k) ==
    LET fi_ == img_out_name(stem(f.name), ax, k)
        gi_ == img_out_name(stem(g.name), ax, k)
        fm_ == mask_out_name(stem(f.name), ax, k)
        gm_ == mask_out_name(stem(g.name), ax, k)
    IN  /\ OnDisk(fi_) <=> OnDisk(gi_)
        /\ OnDisk(fm_) <=> OnDisk(gm_)
        /\ OnDisk(fi_) /\ OnDisk(gi_) => output_dir[fi_] = output_dir[gi_]
        /\ OnDisk(fm_) /\ OnDisk(gm_) => output_dir[fm_] = output_dir[gm_]

\* C7: a 4-axis image with a trailing axis of size 1 is never rejected for its shape, and
\* once a run is complete its outputs are, index by index on every axis, those of the
\* 3-axis image with the same voxels and labels: the same indices, named the same way,
\* with the same image and label slices.
C7_TrailingUnitAxis ==
    /\ (pc = "ValueError" => ~Unit4D(Load(img_file.name)))
    /\ pc = "done" =>
          \A f \in 1..Len(image_files) : \A g \in 1..Len(image_files) :
              SameButTrailingAxis(image_files[f], image_files[g]) =>
                  \A ax \in Axes : \A k \in 0..(DimOf(image_files[f].content.shape, ax) - 1) :
                      SameOutput(image_files[f], image_files[g], ax, k)

C7_Witness ==
    /\ pc = "done"
    /\ \E f \in 1..Len(image_files) : \E g \in 1..Len(image_files) :
          /\ SameButTrailingAxis(image_files[f], image_files[g])
          /\ \A ax \in Axes : \E k \in 0..(DimOf(image_files[f].content.shape, ax) - 1) :
                PairOnDisk(stem(image_files[g].name), ax, k)

-----------------------------------------------------------------------------
(* C8 *)

\* C8: a 4-axis image whose trailing axis is longer than 1 never gets an output file, and
\* the file loop never goes past it unless it was skipped for its label file: its
\* processing ends in the ValueError, before any slice loop.
C8_RejectsWideTrailingAxis ==
    \A f \in 1..Len(image_files) :
        Bad4D(image_files[f].content) =>
            /\ \A ax \in Axes : \A k \in 0..(DimOf(image_files[f].content.shape, ax) - 1) :
                  /\ ~OnDisk(img_out_name(stem(image_files[f].name), ax, k))
                  /\ ~OnDisk(mask_out_name(stem(image_files[f].name), ax, k))
            /\ (f < fi => Skippable(image_files[f]))
            /\ (f = fi /\ ~Skippable(image_files[f]) => pc \in {"files", "ValueError"})

C8_Witness ==
    /\ pc = "ValueError"
    /\ Bad4D(Load(img_file.name))
    /\ fi > 1
    /\ written # {}

-----------------------------------------------------------------------------
(* C9 *)

\* C9: in a run that starts from an empty output directory, in every state, also after
\* a write has failed, every mask file on disk has its image file on disk, and at most
\* one image file lacks its mask.
C9_MaskHasImage ==
    run = 1 =>
        /\ \A n \in DOMAIN output_dir : IsMaskName(n) => OnDisk(ImageOfMask(n))
        /\ Cardinality(OrphanImages) <= 1

C9_Witness ==
    /\ run = 1
    /\ pc = "OSError"
    /\ Cardinality(OrphanImages) = 1
    /\ written # {}

-----------------------------------------------------------------------------
(* C10 *)

InUInt16(slice) == \A v \in unique(slice) : v \in 0..(UInt16Range - 1)

\* C10: every mask this run wrote for the current file holds the original labels modulo
\* 2^16; when the original labels of the slice all lie in 0..65535 the stored mask is
\* the original slice, with at least min_masks distinct non-zero labels.
C10_StoredModulo16Bits ==
    Slicing =>
        \A ax \in Axes : \A k \in 0..(DimOf(masks.shape, ax) - 1) :
            (Processed(ax, k) /\ mask_out_name(CurrentStem, ax, k) \in written) =>
                LET orig == mask_slice(masks, ax, k)
                    stored == output_dir[mask_out_name(CurrentStem, ax, k)].array
                IN  /\ stored.shape = orig.shape
                    /\ \A r \in 1..orig.shape[1] : \A c \in 1..orig.shape[2] :
                          stored.data[r][c] = orig.data[r][c] % UInt16Range
                    /\ InUInt16(orig) =>
                          /\ stored = orig
                          /\ NonZeroLabels(stored) >= min_masks

\* a slice with a label beyond 16 bits was stored, and one within 16 bits too
C10_Witness ==
    /\ Slicing
    /\ \E ax \in Axes : \E k \in 0..(DimOf(masks.shape, ax) - 1) :
          /\ Processed(ax, k)
          /\ mask_out_name(CurrentStem, ax, k) \in written
          /\ ~InUInt16(mask_slice(masks, ax, k))
    /\ \E ax \in Axes : \E k \in 0..(DimOf(masks.shape, ax) - 1) :
          /\ Processed(ax, k)
          /\ mask_out_name(CurrentStem, ax, k) \in written
          /\ InUInt16(mask_slice(masks, ax, k))

====
